---- MODULE Spec2Model ----
(***************************************************************************)
(* A model of video_processor.py: the VideoProcessor widget (capture       *)
(* handle, QTimer, mode flags, threshold, process_frame) and the           *)
(* MainWindow slots that drive it (start/stop, enable_*, set_threshold,    *)
(* update_label).                                                          *)
(*                                                                         *)
(* Frames are uniform images, represented by the value of their pixels:    *)
(*   [ch |-> number of channels, px |-> the channel values of a pixel,     *)
(*    boxes |-> the rectangle outlines drawn on the image].                *)
(* A 3-channel pixel is <<b, g, r>> in a frame from the camera.            *)
(***************************************************************************)
EXTENDS Integers, Sequences, FiniteSets, TLC

VARIABLES
  cap,                      \* self.cap: None, or the id of a VideoCapture object
  handles,                  \* the VideoCapture objects created so far
  timer_active,             \* self.timer.isActive()
  processing_enabled,
  edge_detection_enabled,
  gray_threshold_enabled,
  face_detection_enabled,
  eye_detection_enabled,
  threshold,
  label,                    \* the pixmap of MainWindow.label (NoFrame: none)
  emitted,                  \* the frame of the last frame_update_signal
  error,                    \* the exception that ended the application
  signalled,                \* the last handler emitted frame_update_signal
  last,                     \* the last handler that ran (a tick: with what read gave)
  stop_calls,               \* stop_camera calls in a row (0, 1, 2 = two or more)
  running,                  \* handlers the event loop is inside of
  tpc,                      \* where the timeout slot update_frame stands
  upc,                      \* where the clicked slot enable_* stands
  t_frame,                  \* update_frame's local `frame`
  seen_process,             \* the flags process_frame read in this tick
  seen_display,             \* the flags update_label read in this tick
  pf_in,                    \* process_frame's argument (function check)
  pf_out                    \* process_frame's result   (function check)

state == <<cap, handles, timer_active, processing_enabled, edge_detection_enabled,
           gray_threshold_enabled, face_detection_enabled, eye_detection_enabled,
           threshold, label, emitted, error>>
flags == <<edge_detection_enabled, gray_threshold_enabled,
           face_detection_enabled, eye_detection_enabled>>
steps == <<running, tpc, upc, t_frame, seen_process, seen_display>>
pf    == <<pf_in, pf_out>>
vars  == <<state, signalled, last, stop_calls, steps, pf>>

---------------------------------------------------------------------------
(* Bounds of the model *)

MaxHandles == 2            \* VideoCapture objects created in one run

(* Inputs *)

MaxVal == 255              \* maxval of cv2.threshold
SliderMax == 255           \* threshold_slider.setRange(0, 255)
Bytes == 0 .. 255          \* the values of an 8-bit channel
None == 0                  \* self.cap = None
NoFrame == [ch |-> 0, px |-> <<>>, boxes |-> {}]
Color(p) == [ch |-> 3, px |-> p, boxes |-> {}]
Ok(f) == [err |-> FALSE, frame |-> f]      \* a call that returned f
Raise == [err |-> TRUE, frame |-> NoFrame] \* a call that raised cv2.error

CameraPixels == {<<0, 0, 0>>, <<200, 200, 200>>, <<30, 60, 90>>}
SliderSamples == {0, 127, 200, 255}
Rect1 == [x |-> 1, y |-> 1, w |-> 2, h |-> 2]
Detections == {{}, {Rect1}}     \* what detectMultiScale may return

---------------------------------------------------------------------------
(* The cv2 operations the program calls *)

\* cv2.cvtColor(frame, cv2.COLOR_BGR2GRAY) on 8-bit pixels:
\* Y = 0.299 R + 0.587 G + 0.114 B in 15-bit fixed point, rounded.
Luma(p) == (p[3] * 9798 + p[2] * 19235 + p[1] * 3735 + 16384) \div 32768

BGR2GRAY(f) == [ch |-> 1, px |-> <<Luma(f.px)>>, boxes |-> {}]

GRAY2BGR(f) == [ch |-> 3, px |-> <<f.px[1], f.px[1], f.px[1]>>, boxes |-> {}]

Swap(p) == <<p[3], p[2], p[1]>>

BGR2RGB(f) ==
  [ch |-> 3, px |-> Swap(f.px),
   boxes |-> {[rect |-> b.rect, color |-> Swap(b.color)] : b \in f.boxes}]

\* cv2.Canny(gray, 100, 200): a uniform image has no gradient, so no edge.
Canny(f) == [ch |-> 1, px |-> <<0>>, boxes |-> {}]

\* cv2.threshold(src, thresh, maxval, cv2.THRESH_BINARY), per pixel:
\* dst = maxval if src > thresh else 0.
THRESH_BINARY_GE(v, thresh, maxval) == IF v >= thresh THEN maxval ELSE 0
THRESH_BINARY_INV(v, thresh, maxval) == IF v > thresh THEN 0 ELSE maxval
THRESH_BINARY(v, thresh, maxval) == IF v > thresh THEN maxval ELSE 0

Threshold(f, thresh, maxval) ==
  [ch |-> 1, px |-> <<THRESH_BINARY(f.px[1], thresh, maxval)>>, boxes |-> {}]

\* cv2.rectangle(frame, (x, y), (x+w, y+h), color, 2) for every rectangle
Rectangles(f, found, color) ==
  [f EXCEPT !.boxes = @ \cup {[rect |-> r, color |-> color] : r \in found}]


\* VideoProcessor.process_frame. `loaded`: the cascade file was read;
\* `found`: the rectangles detectMultiScale returns (it raises on an empty
\* classifier).
process_frame(frame, loaded, found) ==
  IF edge_detection_enabled
    THEN Ok(Canny(BGR2GRAY(frame)))
  ELSE IF gray_threshold_enabled
    THEN Ok(GRAY2BGR(Threshold(BGR2GRAY(frame), threshold, MaxVal)))
  ELSE IF face_detection_enabled
    THEN IF loaded THEN Ok(Rectangles(frame, found, <<255, 0, 0>>)) ELSE Raise
  ELSE IF eye_detection_enabled
    THEN IF loaded THEN Ok(Rectangles(frame, found, <<0, 255, 0>>)) ELSE Raise
  ELSE Ok(frame)

\* MainWindow.update_label: the image handed to QImage, or cv2.error when
\* cvtColor is given a frame with the wrong number of channels.
update_label(frame) ==
  IF edge_detection_enabled
    THEN IF frame.ch = 1 THEN Ok(GRAY2BGR(frame)) ELSE Raise
    ELSE IF frame.ch = 3 THEN Ok(BGR2RGB(frame)) ELSE Raise

---------------------------------------------------------------------------
(* VideoCapture objects *)

Ids == 1 .. MaxHandles
Created == {h \in Ids : handles[h] # "unborn"}
Opened == {h \in Ids : handles[h] = "open"}

\* cap.release(): closes an open device, nothing otherwise
Release(h) == [handles EXCEPT ![h] = IF @ = "open" THEN "closed" ELSE @]

---------------------------------------------------------------------------
(* State after MainWindow.__init__ *)

InitState ==
  /\ cap = None
  /\ handles = [h \in Ids |-> "unborn"]
  /\ timer_active = FALSE
  /\ processing_enabled = FALSE
  /\ edge_detection_enabled = FALSE
  /\ gray_threshold_enabled = FALSE
  /\ face_detection_enabled = FALSE
  /\ eye_detection_enabled = FALSE
  /\ threshold = 127
  /\ label = NoFrame
  /\ emitted = NoFrame
  /\ error = "none"

InitSteps ==
  /\ running = 0
  /\ tpc = "idle"
  /\ upc = <<"idle", 0>>
  /\ t_frame = NoFrame
  /\ seen_process = <<>>
  /\ seen_display = <<>>

NotYet == Ok(NoFrame)
InitPf == pf_in = NoFrame /\ pf_out = NotYet

Init ==
  /\ InitState
  /\ InitSteps
  /\ InitPf
  /\ signalled = FALSE
  /\ last = "init"
  /\ stop_calls = 0

---------------------------------------------------------------------------
(* The slots, each a whole handler *)

Alive == error = "none"

Called(op) ==
  /\ last' = op
  /\ stop_calls' = IF op = "stop_camera"
                     THEN (IF stop_calls < 2 THEN stop_calls + 1 ELSE 2)
                     ELSE 0

\* VideoProcessor.start_camera: `opened` is whether the device opened.
start_camera(opened) ==
  /\ Cardinality(Created) < MaxHandles
  /\ LET h == Cardinality(Created) + 1 IN
       /\ handles' = [handles EXCEPT ![h] = IF opened THEN "open" ELSE "failed"]
       /\ cap' = h
  /\ timer_active' = TRUE
  /\ processing_enabled' = FALSE
  /\ UNCHANGED <<flags, threshold, label, emitted, error>>

StartCamera ==
  /\ Alive
  /\ \E opened \in BOOLEAN : start_camera(opened)
  /\ Called("start_camera")
  /\ signalled' = FALSE
  /\ UNCHANGED <<steps, pf>>

\* The runtime finalises a VideoCapture object nothing refers to any more
\* (its destructor releases the device); when it does so is up to the runtime.
Finalize ==
  /\ Alive
  /\ \E h \in Opened :
       /\ h # cap
       /\ handles' = Release(h)
  /\ UNCHANGED <<cap, timer_active, processing_enabled, flags, threshold,
                 label, emitted, error, signalled, last, stop_calls, steps, pf>>

stop_camera_unguarded ==
  /\ timer_active' = FALSE
  /\ IF cap # None
       THEN handles' = Release(cap) /\ error' = error
       ELSE handles' = handles /\ error' = "AttributeError"
  /\ UNCHANGED <<cap, processing_enabled, flags, threshold, label, emitted>>

stop_camera_keeps_timer ==
  /\ timer_active' = timer_active
  /\ handles' = IF cap # None THEN Release(cap) ELSE handles
  /\ UNCHANGED <<cap, processing_enabled, flags, threshold, label, emitted, error>>

\* VideoProcessor.stop_camera
stop_camera ==
  /\ timer_active' = FALSE
  /\ handles' = IF cap # None THEN Release(cap) ELSE handles
  /\ UNCHANGED <<cap, processing_enabled, flags, threshold, label, emitted, error>>

StopCamera ==
  /\ Alive
  /\ stop_camera
  /\ Called("stop_camera")
  /\ signalled' = FALSE
  /\ UNCHANGED <<steps, pf>>

enable_gray_threshold_keeps_edge ==
  /\ processing_enabled' = TRUE
  /\ gray_threshold_enabled' = TRUE
  /\ face_detection_enabled' = FALSE
  /\ eye_detection_enabled' = FALSE
  /\ UNCHANGED edge_detection_enabled

enable_edge_detection ==
  /\ processing_enabled' = TRUE
  /\ edge_detection_enabled' = TRUE
  /\ gray_threshold_enabled' = FALSE
  /\ face_detection_enabled' = FALSE
  /\ eye_detection_enabled' = FALSE

enable_gray_threshold ==
  /\ processing_enabled' = TRUE
  /\ edge_detection_enabled' = FALSE
  /\ gray_threshold_enabled' = TRUE
  /\ face_detection_enabled' = FALSE
  /\ eye_detection_enabled' = FALSE

enable_face_detection ==
  /\ processing_enabled' = TRUE
  /\ edge_detection_enabled' = FALSE
  /\ gray_threshold_enabled' = FALSE
  /\ face_detection_enabled' = TRUE
  /\ eye_detection_enabled' = FALSE

enable_eye_detection ==
  /\ processing_enabled' = TRUE
  /\ edge_detection_enabled' = FALSE
  /\ gray_threshold_enabled' = FALSE
  /\ face_detection_enabled' = FALSE
  /\ eye_detection_enabled' = TRUE

EnableRest ==
  /\ signalled' = FALSE
  /\ UNCHANGED <<cap, handles, timer_active, threshold, label, emitted, error,
                 steps, pf>>

EnableEdgeDetection ==
  Alive /\ enable_edge_detection /\ Called("enable_edge_detection") /\ EnableRest

EnableGrayThreshold ==
  Alive /\ enable_gray_threshold /\ Called("enable_gray_threshold") /\ EnableRest

EnableFaceDetection ==
  Alive /\ enable_face_detection /\ Called("enable_face_detection") /\ EnableRest

EnableEyeDetection ==
  Alive /\ enable_eye_detection /\ Called("enable_eye_detection") /\ EnableRest

\* MainWindow.set_threshold, from the slider's valueChanged
set_threshold(value) ==
  /\ threshold' = value
  /\ UNCHANGED <<cap, handles, timer_active, processing_enabled, flags, label,
                 emitted, error>>

SetThreshold ==
  /\ Alive
  /\ \E value \in SliderSamples : value # threshold /\ set_threshold(value)
  /\ Called("set_threshold")
  /\ signalled' = FALSE
  /\ UNCHANGED <<steps, pf>>

\* self.cap.read(): a frame only from an open device, and not always
Reads == IF cap # None /\ handles[cap] = "open" THEN BOOLEAN ELSE {FALSE}

\* emit(frame) runs update_label(frame) in place (same thread)
Deliver(frame) ==
  LET shown == update_label(frame) IN
    /\ emitted' = frame
    /\ IF shown.err
         THEN label' = label /\ error' = "cv2.error"
         ELSE label' = shown.frame /\ error' = error

\* update_frame without its `if ret:` (read gives frame = None on failure)
update_frame_ignores_ret(ret, px, loaded, found) ==
  /\ UNCHANGED <<cap, handles, timer_active, processing_enabled, flags, threshold>>
  /\ signalled' = TRUE
  /\ Deliver(IF ret THEN Color(px) ELSE NoFrame)

\* VideoProcessor.update_frame, the timer's timeout slot
update_frame(ret, px, loaded, found) ==
  /\ UNCHANGED <<cap, handles, timer_active, processing_enabled, flags, threshold>>
  /\ IF cap = None
       THEN /\ error' = "AttributeError"
            /\ signalled' = FALSE
            /\ UNCHANGED <<label, emitted>>
     ELSE IF ~ret
       THEN /\ signalled' = FALSE
            /\ UNCHANGED <<label, emitted, error>>
     ELSE LET r == IF processing_enabled
                     THEN process_frame(Color(px), loaded, found)
                     ELSE Ok(Color(px))
          IN IF r.err
               THEN /\ error' = "cv2.error"
                    /\ signalled' = FALSE
                    /\ UNCHANGED <<label, emitted>>
               ELSE /\ signalled' = TRUE
                    /\ Deliver(r.frame)

UpdateFrame ==
  /\ Alive
  /\ timer_active
  /\ \E ret \in Reads, px \in CameraPixels, loaded \in BOOLEAN, found \in Detections :
       /\ update_frame(ret, px, loaded, found)
       /\ Called(IF ret THEN "update_frame:frame" ELSE "update_frame:noframe")
  /\ UNCHANGED <<steps, pf>>

Next ==
  \/ StartCamera
  \/ StopCamera
  \/ Finalize
  \/ EnableEdgeDetection
  \/ EnableGrayThreshold
  \/ EnableFaceDetection
  \/ EnableEyeDetection
  \/ SetThreshold
  \/ UpdateFrame

Spec == Init /\ [][Next]_vars

---------------------------------------------------------------------------
(* Properties of the handlers (checked under Spec) *)

OnlyFlag(i) == \A j \in 1 .. 4 : flags[j] <=> (j = i)

\* C1: at most one of the four mode flags is true in every reachable state,
\* and right after enable_<B> exactly B's flag is true.
C1_ModeExclusive ==
  /\ Cardinality({j \in 1 .. 4 : flags[j]}) <= 1
  /\ last = "enable_edge_detection" => OnlyFlag(1)
  /\ last = "enable_gray_threshold" => OnlyFlag(2)
  /\ last = "enable_face_detection" => OnlyFlag(3)
  /\ last = "enable_eye_detection" => OnlyFlag(4)

C1_Witness ==
  /\ last = "enable_gray_threshold"
  /\ gray_threshold_enabled
  /\ timer_active
  /\ label # NoFrame /\ label.boxes # {}   \* a detection mode ran before

\* C4: stop_camera halts the timer, and while the timer is halted no step
\* emits frame_update_signal or changes the displayed frame.
C4_StopHaltsDelivery ==
  [][ /\ StopCamera => ~timer_active'
      /\ ~timer_active => (~signalled' /\ emitted' = emitted /\ label' = label)
    ]_vars

C4_Witness ==
  /\ last = "stop_camera"
  /\ ~timer_active
  /\ emitted # NoFrame
  /\ handles[cap] = "closed"

\* C5: stop_camera raises nothing; when start_camera was never called it
\* changes no state; a second call in a row changes nothing the first left.
C5_StopIdempotent ==
  [][ StopCamera =>
        /\ error' = "none"
        /\ cap = None => state' = state
        /\ last = "stop_camera" => state' = state
    ]_vars

C5_Witness == stop_calls = 2 /\ cap = None /\ ~timer_active

\* C6 (as claimed): after a start_camera whose device failed to open, the
\* periodic tick is not running.
C6_FailedOpenNoTick ==
  (cap # None /\ handles[cap] = "failed") => ~timer_active

\* C7: a tick whose read reports failure emits nothing, leaves the displayed
\* frame and all other state as they were, raises nothing, and the timer
\* stays active.
C7_SkippedTick ==
  [][ (UpdateFrame /\ last' = "update_frame:noframe") =>
        /\ state' = state
        /\ ~signalled'
        /\ timer_active'
        /\ error' = "none"
    ]_vars

C7_Witness ==
  /\ last = "update_frame:noframe"
  /\ handles[cap] = "open"
  /\ label # NoFrame
  /\ processing_enabled

\* C8 (as claimed): at most one opened, unreleased capture handle at a time,
\* and none left once stop_camera has returned.
C8_HandleOwnership ==
  /\ Cardinality(Opened) <= 1
  /\ last = "stop_camera" => Opened = {}

\* C9 (as claimed): a frame delivered to update_label is single-channel
\* exactly when edge_detection_enabled is true.
C9_DisplayChannels ==
  signalled => ((emitted.ch = 1) <=> edge_detection_enabled)

---------------------------------------------------------------------------
(* process_frame as a function: every threshold of the slider and every    *)
(* luminance, in each mode (SpecPixel)                                     *)

PixelInputs ==
  {<<v, v, v>> : v \in Bytes} \cup CameraPixels
    \cup {<<1, 0, 0>>, <<255, 0, 0>>, <<0, 0, 255>>, <<0, 255, 255>>}

InitPixel ==
  /\ cap = None
  /\ handles = [h \in Ids |-> "unborn"]
  /\ timer_active = FALSE
  /\ label = NoFrame
  /\ emitted = NoFrame
  /\ error = "none"
  /\ processing_enabled = TRUE
  /\ \E mode \in 1 .. 4 :
       /\ edge_detection_enabled = (mode = 1)
       /\ gray_threshold_enabled = (mode = 2)
       /\ face_detection_enabled = (mode = 3)
       /\ eye_detection_enabled = (mode = 4)
       /\ threshold \in (IF mode = 2 THEN 0 .. SliderMax ELSE SliderSamples)
       /\ pf_in \in {Color(p) : p \in (IF mode = 2 THEN PixelInputs ELSE CameraPixels)}
  /\ pf_out = NotYet
  /\ InitSteps
  /\ signalled = FALSE
  /\ last = "init"
  /\ stop_calls = 0

ProcessFrame ==
  /\ pf_out = NotYet
  /\ \E loaded \in BOOLEAN, found \in Detections :
       pf_out' = process_frame(pf_in, loaded, found)
  /\ UNCHANGED <<state, signalled, last, stop_calls, steps, pf_in>>

NextPixel == ProcessFrame

SpecPixel == InitPixel /\ [][NextPixel]_vars

Gray(v) == Ok(Color(<<v, v, v>>))

\* C2 (as claimed): in GrayThreshold mode a pixel of luminance p comes out
\* 255 in all three channels when p >= T and 0 in all three when p < T.
C2_AsClaimed ==
  (gray_threshold_enabled /\ pf_out # NotYet) =>
     LET p == Luma(pf_in.px) IN
       /\ p >= threshold => pf_out = Gray(MaxVal)
       /\ p < threshold => pf_out = Gray(0)

\* C2 (amended): in GrayThreshold mode a pixel of luminance p comes out 255
\* in all three channels when p > T and 0 in all three when p <= T.
C2_Threshold ==
  (gray_threshold_enabled /\ pf_out # NotYet) =>
     LET p == Luma(pf_in.px) IN
       /\ p > threshold => pf_out = Gray(MaxVal)
       /\ p <= threshold => pf_out = Gray(0)

C2_Witness ==
  /\ gray_threshold_enabled
  /\ pf_in = Color(<<200, 200, 200>>)
  /\ threshold = 200
  /\ pf_out = Gray(0)

\* C3 (as claimed): in GrayThreshold mode, for every T in 0..255, luminance
\* 0 gives 0 in every channel and luminance 255 gives 255 in every channel.
C3_AsClaimed ==
  (gray_threshold_enabled /\ pf_out # NotYet) =>
     /\ Luma(pf_in.px) = 0 => pf_out = Gray(0)
     /\ Luma(pf_in.px) = 255 => pf_out = Gray(MaxVal)

\* C3 (amended): in GrayThreshold mode luminance 0 gives 0 in every channel
\* for every T in 0..255; luminance 255 gives 255 in every channel for every
\* T in 0..254, and 0 in every channel for T = 255.
C3_Boundary ==
  (gray_threshold_enabled /\ pf_out # NotYet) =>
     /\ Luma(pf_in.px) = 0 => pf_out = Gray(0)
     /\ (Luma(pf_in.px) = 255 /\ threshold < 255) => pf_out = Gray(MaxVal)
     /\ (Luma(pf_in.px) = 255 /\ threshold = 255) => pf_out = Gray(0)

C3_Witness ==
  /\ gray_threshold_enabled
  /\ pf_in = Color(<<255, 255, 255>>)
  /\ threshold = 255
  /\ pf_out = Gray(0)

---------------------------------------------------------------------------
(* The same slots statement by statement, as the Qt event loop runs them   *)
(* (SpecSteps): the timeout slot update_frame and the clicked slots        *)
(* enable_* are entered from the event loop of app.exec_(), one at a time. *)

EventLoopReentrant == TRUE

\* app.exec_(): the one event loop of the one thread takes the next event
\* only when the slot of the previous one has returned.
EventLoopIdle == running = 0

StepPixels == {<<200, 200, 200>>, <<30, 60, 90>>}
EnableSlots == <<"enable_edge_detection", "enable_gray_threshold",
                 "enable_face_detection", "enable_eye_detection">>

Enter == running' = running + 1
Return == running' = running - 1

\* the locals and reads of the previous tick are gone when a slot is entered
Forget ==
  /\ t_frame' = NoFrame
  /\ seen_process' = <<>>
  /\ seen_display' = <<>>

\* QTimer.timeout -> update_frame is entered
TickBegin ==
  /\ Alive /\ timer_active /\ EventLoopIdle
  /\ Enter
  /\ tpc' = "read"
  /\ Forget
  /\ UNCHANGED <<state, signalled, last, stop_calls, upc, pf>>

\* ret, frame = self.cap.read(); if ret: if self.processing_enabled:
TickRead ==
  /\ Alive /\ tpc = "read"
  /\ \E ret \in Reads, px \in StepPixels :
       IF cap = None
         THEN /\ error' = "AttributeError"
              /\ tpc' = "idle" /\ Return
              /\ UNCHANGED <<t_frame, signalled, last, stop_calls>>
       ELSE IF ~ret
         THEN /\ tpc' = "idle" /\ Return
              /\ signalled' = FALSE
              /\ Called("update_frame:noframe")
              /\ UNCHANGED <<t_frame, error>>
         ELSE /\ t_frame' = Color(px)
              /\ tpc' = IF processing_enabled THEN "process" ELSE "emit"
              /\ UNCHANGED <<running, error, signalled, last, stop_calls>>
  /\ UNCHANGED <<cap, handles, timer_active, processing_enabled, flags, threshold,
                 label, emitted, upc, seen_process, seen_display, pf>>

\* frame = self.process_frame(frame)
TickProcess ==
  /\ Alive /\ tpc = "process"
  /\ seen_process' = flags
  /\ \E loaded \in BOOLEAN, found \in Detections :
       LET r == process_frame(t_frame, loaded, found) IN
         IF r.err
           THEN /\ error' = "cv2.error"
                /\ tpc' = "idle" /\ Return
                /\ UNCHANGED t_frame
           ELSE /\ t_frame' = r.frame
                /\ tpc' = "emit"
                /\ UNCHANGED <<running, error>>
  /\ UNCHANGED <<cap, handles, timer_active, processing_enabled, flags, threshold,
                 label, emitted, signalled, last, stop_calls, upc, seen_display, pf>>

\* self.frame_update_signal.emit(frame): update_label(frame) runs and returns
TickDisplay ==
  /\ Alive /\ tpc = "emit"
  /\ seen_display' = flags
  /\ Deliver(t_frame)
  /\ signalled' = TRUE
  /\ Called("update_frame:frame")
  /\ tpc' = "idle" /\ Return
  /\ UNCHANGED <<cap, handles, timer_active, processing_enabled, flags, threshold,
                 upc, t_frame, seen_process, pf>>

\* a mode button is clicked: its slot is entered
EnableBegin ==
  /\ Alive /\ EventLoopIdle
  /\ Enter
  /\ \E m \in 1 .. 4 : upc' = <<EnableSlots[m], 1>>
  /\ Forget
  /\ UNCHANGED <<state, signalled, last, stop_calls, tpc, pf>>

\* the k-th assignment of an enable_* slot; the slot returns after the fifth
EnableStep ==
  /\ Alive /\ upc[1] # "idle"
  /\ LET slot == upc[1]
         k == upc[2]
     IN /\ processing_enabled' = IF k = 1 THEN TRUE ELSE processing_enabled
        /\ edge_detection_enabled' =
             IF k = 2 THEN slot = EnableSlots[1] ELSE edge_detection_enabled
        /\ gray_threshold_enabled' =
             IF k = 3 THEN slot = EnableSlots[2] ELSE gray_threshold_enabled
        /\ face_detection_enabled' =
             IF k = 4 THEN slot = EnableSlots[3] ELSE face_detection_enabled
        /\ eye_detection_enabled' =
             IF k = 5 THEN slot = EnableSlots[4] ELSE eye_detection_enabled
        /\ IF k = 5
             THEN /\ upc' = <<"idle", 0>> /\ Return
                  /\ signalled' = FALSE
                  /\ Called(slot)
             ELSE /\ upc' = <<slot, k + 1>>
                  /\ UNCHANGED <<running, signalled, last, stop_calls>>
  /\ UNCHANGED <<cap, handles, timer_active, threshold, label, emitted, error,
                 tpc, t_frame, seen_process, seen_display, pf>>

\* the other slots, entered from the same event loop (each in one step)
Whole(slot) ==
  /\ EventLoopIdle
  /\ slot
  /\ Forget
  /\ UNCHANGED <<running, tpc, upc>>

StepStartCamera == Whole(Alive /\ (\E opened \in BOOLEAN : start_camera(opened))
                           /\ Called("start_camera") /\ signalled' = FALSE /\ UNCHANGED pf)
StepStopCamera == Whole(Alive /\ stop_camera /\ Called("stop_camera")
                          /\ signalled' = FALSE /\ UNCHANGED pf)
StepSetThreshold ==
  Whole(/\ Alive
        /\ \E value \in SliderSamples : value # threshold /\ set_threshold(value)
        /\ Called("set_threshold") /\ signalled' = FALSE /\ UNCHANGED pf)

NextSteps ==
  \/ TickBegin
  \/ TickRead
  \/ TickProcess
  \/ TickDisplay
  \/ EnableBegin
  \/ EnableStep
  \/ StepStartCamera
  \/ StepStopCamera
  \/ StepSetThreshold
  \/ Finalize

SpecSteps == Init /\ [][NextSteps]_vars

Trues(fl) == Cardinality({j \in 1 .. 4 : fl[j]})

\* C10: handlers never overlap (at most one slot is running, so no tick
\* starts inside another tick or inside a mode change and no mode change
\* inside a tick); the flags process_frame read and the flags update_label
\* read in one tick are the same, and are those a finished enable_* call left
\* (exactly one true for process_frame, never two true for update_label).
C10_TicksAtomic ==
  /\ running <= 1
  /\ tpc # "idle" => upc[1] = "idle"
  /\ seen_process # <<>> => Trues(seen_process) = 1
  /\ seen_display # <<>> => Trues(seen_display) <= 1
  /\ (seen_process # <<>> /\ seen_display # <<>>) => seen_process = seen_display

C10_Witness ==
  /\ last = "update_frame:frame"
  /\ seen_process # <<>>
  /\ seen_display = seen_process
  /\ Trues(seen_process) = 1
  /\ label # NoFrame
  /\ running = 0

====
